---- MODULE Spec2Model ----
(***************************************************************************)
(* A model of async_unzip/unzipper.py: the extraction coordinator (unzip), *)
(* the per-entry extractor (_extract_entry), the stream copiers            *)
(* (_write_stored_entry, _write_compressed_entry), window detection and    *)
(* the streaming front end (unzip_stream).                                 *)
(*                                                                         *)
(* Bytes are modelled as one-character strings.  A deflate-family stream   *)
(* is a sequence of tokens: an optional framing header ("G" gzip, "Z"      *)
(* zlib), data tokens that decode to themselves, the end-of-stream token   *)
(* "E", and the framing trailer ("g", "z").  "P" stands for whatever       *)
(* follows an entry's payload in the archive file (the next record).       *)
(*                                                                         *)
(* asyncio runs one coroutine at a time and switches only at an await that *)
(* really suspends, so one action is the code between two suspensions.     *)
(* A read on a task's private source handle is folded into the step that   *)
(* consumes its result.                                                    *)
(***************************************************************************)
EXTENDS Integers, Sequences, FiniteSets, TLC

\* ------------------------------------------------------------------ bounds
MaxEntries == 3
MaxWorkers == 2
MaxBuf == 1

\* ------------------------------------------------------- program constants
MAX_WBITS == 15
DEFAULT_READ_BUFFER_SIZE == 64 * 1024
SmallEntryLimit == 1000000
LargeEntryLimit == 100000000
SmallBuffer == 32 * 1024
LargeBuffer == 256 * 1024
DEFAULT_BACKEND == "zlib"
AVAILABLE_BACKENDS == {"zlib"}

RawWbits == 0 - MAX_WBITS
GzipWbits == MAX_WBITS + 16
ZlibWbits == MAX_WBITS
\* the order in which _probe_window_bits tries the variants
\* for contrast, a probe that would try the wrapped variants before the raw one
ProbeOrderWrappedFirst == <<GzipWbits, ZlibWbits, RawWbits>>
\* as the code has it: raw, gzip, zlib
ProbeOrder == <<RawWbits, GzipWbits, ZlibWbits>>

\* ----------------------------------------------------------------- errors
NoErr == "none"
OK == "ok"
ErrNotZip == "BadZipFile"
ErrHeader == "BadZipFile: Invalid local header"
ErrStoredIncomplete == "BadZipFile: Incomplete stored entry"
ErrCompIncomplete == "BadZipFile: Incomplete compressed entry"
ErrWindow == "zlib.error: Unable to detect compression window size"
ErrDecode == "zlib.error: decode"
ErrNoAsync == "RuntimeError: No async file backend available"
ErrBackend == "ValueError: Unknown backend"
ErrChunkType == "TypeError: chunk_iterable must yield bytes-like objects"
ErrNotCallable == "TypeError: 'NoneType' object is not callable"
ErrSource == "SourceError"
ErrNoFile == "FileNotFoundError"
ErrEOF == "EOFError"
ErrCRC == "BadZipFile: Bad CRC-32"
ErrBadMagic == "BadZipFile: Bad magic number for file header"

\* the exception class of an error
ErrClass(e) ==
    CASE e \in {ErrNotZip, ErrHeader, ErrStoredIncomplete, ErrCompIncomplete,
                ErrCRC, ErrBadMagic} -> "BadZipFile"
      [] e \in {ErrWindow, ErrDecode} -> "zlib.error"
      [] e \in {ErrChunkType, ErrNotCallable} -> "TypeError"
      [] OTHER -> e

\* the spec's error kinds, by the exception the code raises for them
TruncatedEntryError == {ErrStoredIncomplete, ErrCompIncomplete}
FormatError == {ErrNotZip, ErrHeader}

\* ------------------------------------------------------------ small helpers
Min(a, b) == IF a < b THEN a ELSE b
Max(a, b) == IF a > b THEN a ELSE b

Take(s, n) == SubSeq(s, 1, Min(n, Len(s)))
Drop(s, n) == SubSeq(s, Min(n, Len(s)) + 1, Len(s))

RECURSIVE HasPrefix(_, _)
HasPrefix(s, p) ==
    IF p = <<>> THEN TRUE
    ELSE IF s = <<>> THEN FALSE
    ELSE Head(s) = Head(p) /\ HasPrefix(Tail(s), Tail(p))

\* re.compile(p).search(name) for a pattern without metacharacters
RECURSIVE Search(_, _)
Search(p, name) ==
    IF HasPrefix(name, p) THEN TRUE
    ELSE IF name = <<>> THEN FALSE
    ELSE Search(p, Tail(name))


\* --------------------------------------------------- decompression backend
\* A decoder made by factory(window_bits) (zlib.decompressobj and its
\* drop-in replacements): a state machine over the tokens fed to it.
Bytes == {"x", "y"}

NewDecoder(wbits) ==
    [wbits |-> wbits, st |-> IF wbits = RawWbits THEN "start" ELSE "hdr"]

\* the state after one token; "err" is the backend's decode error
DecNext(d, tok) ==
    CASE d.st = "end" -> "end"                      \* goes to unused_data
      [] d.st = "err" -> "err"
      [] d.st = "hdr" ->
            IF (d.wbits = GzipWbits /\ tok = "G") \/ (d.wbits = ZlibWbits /\ tok = "Z")
            THEN "body" ELSE "err"
      [] d.st = "start" ->
            \* a raw decoder reads a zlib header byte as a stored-block header
            \* and fails only on the length bytes that follow it
            IF tok \in Bytes THEN "body"
            ELSE IF tok = "E" THEN "end"
            ELSE IF tok = "Z" THEN "lens"
            ELSE "err"
      [] d.st = "lens" -> "err"
      [] d.st = "body" ->
            IF tok \in Bytes THEN "body"
            ELSE IF tok = "E" THEN (IF d.wbits = RawWbits THEN "end" ELSE "trl")
            ELSE "err"
      [] d.st = "trl" ->
            IF (d.wbits = GzipWbits /\ tok = "g") \/ (d.wbits = ZlibWbits /\ tok = "z")
            THEN "end" ELSE "err"

DecEmits(d, tok) == d.st \in {"start", "body"} /\ tok \in Bytes

\* decoder.decompress(buf): [dec, out, err]
RECURSIVE Decompress(_, _)
Decompress(d, buf) ==
    IF buf = <<>> THEN [dec |-> d, out |-> <<>>, err |-> FALSE]
    ELSE LET st2 == DecNext(d, Head(buf))
             emitted == IF DecEmits(d, Head(buf)) THEN <<Head(buf)>> ELSE <<>>
         IN IF st2 = "err"
            THEN [dec |-> [d EXCEPT !.st = "err"], out |-> <<>>, err |-> TRUE]
            ELSE LET r == Decompress([d EXCEPT !.st = st2], Tail(buf))
                 IN [dec |-> r.dec, out |-> emitted \o r.out, err |-> r.err]

\* decoder.flush(): decompress() was given no max_length, so nothing is held back
Flush(d) == <<>>

\* what a compressor with the given framing produces
Encode(wbits, payload) ==
    (IF wbits = GzipWbits THEN <<"G">> ELSE IF wbits = ZlibWbits THEN <<"Z">> ELSE <<>>)
    \o payload \o <<"E">> \o
    (IF wbits = GzipWbits THEN <<"g">> ELSE IF wbits = ZlibWbits THEN <<"z">> ELSE <<>>)

\* _resolve_backend(name): the backend name, or the error it raises
Lower(name) == IF name = "ZLIB" THEN "zlib" ELSE name
ResolveBackend(name) ==
    LET backend_name == Lower(IF name = "" THEN DEFAULT_BACKEND ELSE name)
    IN IF backend_name \notin AVAILABLE_BACKENDS THEN ErrBackend ELSE backend_name

\* ------------------------------------------------------ buffer-size policy
select_buffer_size(entry_size, user_buffer) ==
    IF user_buffer # 0
    THEN (IF user_buffer > 0 THEN user_buffer ELSE DEFAULT_READ_BUFFER_SIZE)
    ELSE IF entry_size < SmallEntryLimit THEN SmallBuffer
    ELSE IF entry_size > LargeEntryLimit THEN LargeBuffer
    ELSE DEFAULT_READ_BUFFER_SIZE

\* ------------------------------------------------------------------ filters
\* the files argument: not given (None), or a collection of names
NoFiles == [given |-> FALSE, names |-> {}]
Files(S) == [given |-> TRUE, names |-> S]
\* the regex_files argument: not given (None), one pattern string, or a list
NoRegex == [form |-> "none", pats |-> <<>>]
RegexStr(p) == [form |-> "str", pats |-> <<p>>]
RegexList(ps) == [form |-> "list", pats |-> ps]

\* set(files) if files else None; None is modelled as given = FALSE
file_whitelist(files) ==
    IF files.given /\ files.names # {} THEN files ELSE NoFiles

\* _compile_patterns: None, or the list of compiled patterns
compile_patterns(regex_files) ==
    IF regex_files.form = "none" THEN NoRegex
    ELSE IF regex_files.form = "str"
         THEN (IF regex_files.pats[1] = <<>> THEN NoRegex
               ELSE RegexList(regex_files.pats))
    ELSE IF regex_files.pats = <<>> THEN NoRegex
    ELSE RegexList(regex_files.pats)

should_extract(file_name, whitelist, regex_patterns) ==
    LET matches_whitelist ==
            ~whitelist.given \/ whitelist.names = {} \/ file_name \in whitelist.names
        matches_regex ==
            regex_patterns.form = "none" \/ regex_patterns.pats = <<>>
            \/ \E k \in DOMAIN regex_patterns.pats : Search(regex_patterns.pats[k], file_name)
    IN matches_whitelist /\ matches_regex

\* -------------------------------------------------------------------- paths
\* PurePath(name).parts: split at "/", empty and "." components dropped
RECURSIVE PartsAcc(_, _, _)
PartsAcc(s, cur, acc) ==
    LET acc2 == IF cur = <<>> \/ cur = <<".">> THEN acc ELSE Append(acc, cur)
    IN IF s = <<>> THEN acc2
       ELSE IF Head(s) = "/" THEN PartsAcc(Tail(s), <<>>, acc2)
       ELSE PartsAcc(Tail(s), Append(cur, Head(s)), acc)
Parts(name) == PartsAcc(name, <<>>, <<>>)

IsAbsolute(name) == name # <<>> /\ Head(name) = "/"
\* the destination root given as path=, and the filesystem root
DestRoot == << <<"o">> >>
FsRoot == << <<"/">> >>
\* Path(extra_path) / file_name: an absolute right operand replaces the left
DestPath(name) == (IF IsAbsolute(name) THEN FsRoot ELSE DestRoot) \o Parts(name)
\* Path.parent
Parent(path) == IF Len(path) > 1 THEN SubSeq(path, 1, Len(path) - 1) ELSE path
\* ZipInfo.is_dir()
is_dir(name) == name # <<>> /\ name[Len(name)] = "/"
\* the directories mkdir(parents=True, exist_ok=True) leaves in existence
WithParents(path) == {SubSeq(path, 1, k) : k \in 1..Len(path)}

\* ---------------------------------------------------------------- archives
\* One entry of the archive directory (a ZipInfo) together with what the
\* archive file holds for it: the state of its local header and the bytes
\* readable from its payload offset to the end of the file.  payload is the
\* content the entry was made from; the code never reads it.
Entry(name, ctype, csize, header, data, payload) ==
    [filename |-> name, compress_type |-> ctype, compress_size |-> csize,
     file_size |-> Len(payload), header |-> header, data |-> data,
     payload |-> payload]

Cat ==
    << Entry(<<"d", "/">>, "stored", 0, "ok", <<"P">>, <<>>),
       Entry(<<"d", "/", "a">>, "stored", 2, "ok", <<"x", "y", "P">>, <<"x", "y">>),
       Entry(<<"g">>, "stored", 1, "bad", <<"x", "P">>, <<"x">>),
       Entry(<<"d", "/", "b">>, "deflated", 2, "ok",
             Encode(RawWbits, <<"y">>) \o <<"P">>, <<"y">>),
       Entry(<<"e", "/", "f">>, "stored", 2, "ok", <<"x">>, <<"x", "y">>),
       Entry(<<"c">>, "deflated", 0, "ok", <<"P">>, <<>>),
       Entry(<<"d", "/", "a">>, "stored", 1, "ok", <<"y", "P">>, <<"y">>),
       Entry(<<"h">>, "deflated", 2, "ok",
             Encode(RawWbits, <<"x">>) \o <<"P">>, <<"x">>) >>

\* the archives: up to MaxEntries entries of the catalogue, in its order
Ascending(s) == \A i, j \in DOMAIN s : i < j => s[i] < s[j]
EntryLists ==
    { [k \in DOMAIN s |-> Cat[s[k]]] :
        s \in { t \in UNION { [1..n -> DOMAIN Cat] : n \in 1..MaxEntries } : Ascending(t) } }
Zip(entries) == [is_zip |-> TRUE, entries |-> entries]

\* entries whose names an archive directory can hold as well: infolist()
\* hands out absolute names and names with ".." components as they are
EscapeCat ==
    << Entry(<<"/", "r">>, "stored", 1, "ok", <<"x", "P">>, <<"x">>),
       Entry(<<".", ".", "/", "u">>, "deflated", 2, "ok",
             Encode(RawWbits, <<"x">>) \o <<"P">>, <<"x">>),
       Entry(<<".", ".", "/", "w", "/">>, "stored", 0, "ok", <<"P">>, <<>>),
       Entry(<<"c">>, "deflated", 0, "ok", <<"P">>, <<>>) >>
EscapeLists ==
    { [k \in DOMAIN s |-> EscapeCat[s[k]]] :
        s \in { t \in UNION { [1..n -> DOMAIN EscapeCat] : n \in 1..MaxEntries } :
                  Ascending(t) } }
NotZip == [is_zip |-> FALSE, entries |-> <<>>]
ZipFiles == { Zip(es) : es \in EntryLists } \cup {NotZip}

\* zipfile.is_zipfile and ZipFile(...).infolist()
is_zipfile(zip_file) == zip_file.is_zip
infolist(zip_file) == zip_file.entries

\* ------------------------------------------------------------------- state
VARIABLES
    call,          \* the arguments of the call being made
    pc,            \* where the called function is: "start", "running", "done", ...
    mode,          \* how the entries are run: "none", "seq", "gather", "mem", "direct"
    result,        \* what the call gave its caller: "none", "ok" or the error raised
    selected,      \* selected_entries
    worker_count,  \* the clamped max_workers
    sem,           \* the value of the asyncio.Semaphore
    task,          \* one record per selected entry: the state of its extraction
    firstErr,      \* the exception gather() holds for the caller
    created_dirs,  \* the created_dirs set of the call
    parent_mkdirs, \* path -> number of mkdir calls made for it as a file's parent
    dir_mkdirs,    \* path -> number of mkdir calls made for it as a directory entry
    dirs,          \* the directories that exist
    fs,            \* destination path -> content of the file there
    opened,        \* the destination paths ever opened for writing
    cache,         \* _WINDOW_BITS_CACHE
    probes,        \* number of calls of _probe_window_bits
    spool,         \* the temporary spool file of unzip_stream
    stream,        \* the chunks unzip_stream has yet to receive
    prev           \* the outcome of the same request in the other spool mode

vars == <<call, pc, mode, result, selected, worker_count, sem, task, firstErr,
          created_dirs, parent_mkdirs, dir_mkdirs, dirs, fs, opened, cache,
          probes, spool, stream, prev>>

NoDecoder == [wbits |-> 0, st |-> "none"]
NewTask ==
    [pc |-> "queued", remaining |-> 0, read_block |-> 0, rpos |-> 0, wpos |-> 0,
     dec |-> NoDecoder, nreads |-> 0, nwrites |-> 0, asked |-> 0, eof |-> FALSE,
     err |-> NoErr]

Tasks == DOMAIN task
Paths ==
    { DestPath(Cat[k].filename) : k \in DOMAIN Cat }
    \cup { DestPath(EscapeCat[k].filename) : k \in DOMAIN EscapeCat }
AllDirs == UNION { WithParents(p) : p \in Paths }
CacheKeys == {"zlib:archive.zip", "zlib:spool.zip", "key"}
NoSpool == [exists |-> FALSE, content |-> <<>>]
NoPrev == [set |-> FALSE, result |-> NoErr, fs |-> <<>>]

\* the argument values the model draws a call from
FilesArgs ==
    {NoFiles, Files({}), Files({Cat[2].filename, Cat[4].filename}), Files({Cat[3].filename})}
RegexArgs ==
    {NoRegex, RegexList(<<>>), RegexStr(<<"a">>), RegexList(<<<<"a">>>>),
     RegexList(<<<<"d", "/">>, <<"c">>>>)}
WorkerArgs == (0 - 1)..MaxWorkers
BufferArgs == 0..MaxBuf
BackendArgs == {"", "bogus"}

InitState ==
    /\ pc = "start" /\ mode = "none" /\ result = NoErr
    /\ selected = <<>> /\ worker_count = 0 /\ sem = 0 /\ task = <<>>
    /\ firstErr = NoErr /\ created_dirs = {}
    /\ parent_mkdirs = [p \in AllDirs |-> 0] /\ dir_mkdirs = [p \in AllDirs |-> 0]
    /\ dirs = {} /\ fs = [p \in {} |-> <<>>] /\ opened = {}
    /\ probes = 0
    /\ spool = NoSpool /\ stream = <<>> /\ prev = NoPrev

\* a call of unzip(zip_file, path, files, regex_files, buffer_size, max_workers,
\* backend); has_async says whether async_open is set.  The other fields are
\* the arguments of the other entry points
Init ==
    /\ InitState
    /\ cache = [k \in CacheKeys |-> 0]
    /\ call \in [kind : {"unzip"}, zip_file : ZipFiles, files : FilesArgs,
                 regex_files : RegexArgs, buffer_size : BufferArgs,
                 max_workers : WorkerArgs, backend : BackendArgs,
                 has_async : BOOLEAN, in_memory : {FALSE},
                 remaining : {0}, read_block : {0}, source : {<<>>},
                 cache_key : {""}, chunking : {"none"}]

\* ------------------------------------------------------------- leaving a call
\* the finally clause of unzip_stream: temp_path.unlink(missing_ok=True)
\* for contrast, a finally clause that would unlink only after a success
finally_unlink_on_success(sp, res) == IF res = OK THEN NoSpool ELSE sp
\* as the code has it
finally_unlink(sp, res) == NoSpool

\* the call returns res or raises it; a call that came through unzip_stream
\* passes its finally clause on the way out
Leave(res) ==
    /\ pc' = "done"
    /\ result' = res
    /\ spool' = finally_unlink(spool, res)

\* max(1, int(max_workers) if max_workers else 1)
\* for contrast, a count that would not be clamped
WorkerCountUnclamped(max_workers) == IF max_workers # 0 THEN max_workers ELSE 1
\* as the code has it
WorkerCount(max_workers) == Max(1, IF max_workers # 0 THEN max_workers ELSE 1)

\* the bytes of an archive file as they travel: its image, in two pieces
Image(zip_file) == << [zip |-> zip_file, part |-> 1], [zip |-> zip_file, part |-> 2] >>
\* the archive a file's content makes: none unless the image is all there
ParseZip(content) ==
    IF content # <<>> /\ content = Image(content[1].zip) THEN content[1].zip ELSE NotZip

\* the archive file unzip is given: the caller's, or the spool file
TheZip == IF call.kind = "unzip_stream" THEN ParseZip(spool.content) ELSE call.zip_file
\* f"{backend_name}:{zip_file}"
CacheKey == IF call.kind = "unzip" THEN "zlib:archive.zip" ELSE "zlib:spool.zip"

\* the checks unzip makes before it reads the archive directory, in the
\* order it makes them: the error raised, or NoErr
\* for contrast, an ordering that would resolve the backend ahead of is_zipfile
unzip_precheck_backend_first(zip_file, has_async, backend) ==
    IF ResolveBackend(backend) = ErrBackend THEN ErrBackend
    ELSE IF ~has_async THEN ErrNoAsync
    ELSE IF ~is_zipfile(zip_file) THEN ErrNotZip
    ELSE NoErr
\* as the code has it
unzip_precheck(zip_file, has_async, backend) ==
    IF ~is_zipfile(zip_file) THEN ErrNotZip
    ELSE IF ~has_async THEN ErrNoAsync
    ELSE IF ResolveBackend(backend) = ErrBackend THEN ErrBackend
    ELSE NoErr

\* unzip, from its first line to the first suspension
Begin ==
    /\ \/ pc = "start" /\ call.kind = "unzip"
       \/ pc = "unzip" /\ call.kind = "unzip_stream"
    /\ LET whitelist == file_whitelist(call.files)
           regex_patterns == compile_patterns(call.regex_files)
           selected_entries ==
               SelectSeq(infolist(TheZip),
                         LAMBDA info : should_extract(info.filename, whitelist, regex_patterns))
           wc == WorkerCount(call.max_workers)
           refused == unzip_precheck(TheZip, call.has_async, call.backend)
           quit == IF refused # NoErr THEN refused
                   ELSE IF selected_entries = <<>> THEN OK
                   ELSE NoErr
       IN IF quit # NoErr
          THEN /\ Leave(quit)
               /\ UNCHANGED <<mode, selected, worker_count, sem, task, created_dirs>>
          ELSE /\ pc' = "running"
               /\ mode' = IF wc = 1 \/ Len(selected_entries) = 1 THEN "seq" ELSE "gather"
               /\ selected' = selected_entries
               /\ worker_count' = wc
               /\ sem' = wc
               /\ task' = [i \in 1..Len(selected_entries) |-> NewTask]
               /\ created_dirs' = {}
               /\ UNCHANGED <<result, spool>>
    /\ UNCHANGED <<call, firstErr, parent_mkdirs, dir_mkdirs, dirs, fs, opened,
                   cache, probes, stream, prev>>

\* ------------------------------------------------------------ one entry's task
\* task i has finished with error err (NoErr: normally); held says whether it
\* held a semaphore slot
Settle(i, t2, err, held) ==
    /\ task' = [task EXCEPT ![i] = t2]
    /\ IF mode = "gather"
       THEN /\ sem' = IF held THEN sem + 1 ELSE sem
            /\ firstErr' = IF err # NoErr /\ firstErr = NoErr THEN err ELSE firstErr
            /\ UNCHANGED <<pc, result, spool>>
       ELSE /\ UNCHANGED <<sem, firstErr>>
            /\ IF err # NoErr THEN Leave(err)
               ELSE IF i = Len(selected) THEN Leave(OK)
               ELSE UNCHANGED <<pc, result, spool>>

\* task i raises err out of its `async with semaphore` block
\* for contrast, a failure that would keep the semaphore slot
FailKeepingSlot(i, t, err) ==
    Settle(i, [t EXCEPT !.pc = "failed", !.err = err], err, FALSE)
\* as the code has it
Fail(i, t, err) ==
    Settle(i, [t EXCEPT !.pc = "failed", !.err = err], err, TRUE)

\* the semaphore lets task i in: a free slot, and every earlier task is in
\* for contrast, a gate that would hold nobody back
AdmitsAnyone(i) == TRUE
\* as the code has it
Admits(i) == sem > 0

\* entry i may start
CanStart(i) ==
    /\ task[i].pc = "queued"
    /\ \A j \in Tasks : j < i => task[j].pc # "queued"
    /\ mode = "gather" => Admits(i)
    /\ mode = "seq" => pc = "running" /\ \A j \in Tasks : j < i => task[j].pc = "done"

\* whether the parent directory needs its mkdir call
\* for contrast, an extractor that would not consult created_dirs
NeedsMkdirAlways(parent_key) == TRUE
\* as the code has it
NeedsMkdir(parent_key) == parent_key \notin created_dirs

\* async with semaphore; then _extract_entry up to the opening of the archive
Admit(i) ==
    /\ mode \in {"seq", "gather"}
    /\ CanStart(i)
    /\ LET file_name == selected[i].filename
           unpack_filename_path == DestPath(file_name)
           parent_key == Parent(unpack_filename_path)
       IN IF is_dir(file_name)
          THEN /\ dir_mkdirs' = [dir_mkdirs EXCEPT ![unpack_filename_path] = @ + 1]
               /\ dirs' = dirs \cup WithParents(unpack_filename_path)
               /\ Settle(i, [task[i] EXCEPT !.pc = "done"], NoErr, FALSE)
               /\ UNCHANGED <<created_dirs, parent_mkdirs>>
          ELSE /\ IF NeedsMkdir(parent_key)
                  THEN /\ parent_mkdirs' = [parent_mkdirs EXCEPT ![parent_key] = @ + 1]
                       /\ dirs' = dirs \cup WithParents(parent_key)
                       /\ created_dirs' = created_dirs \cup {parent_key}
                  ELSE UNCHANGED <<parent_mkdirs, dirs, created_dirs>>
               /\ task' = [task EXCEPT ![i].pc = "open_src"]
               /\ sem' = IF mode = "gather" THEN sem - 1 ELSE sem
               /\ UNCHANGED <<dir_mkdirs, pc, result, spool, firstErr>>
    /\ UNCHANGED <<call, mode, selected, worker_count, fs, opened, cache, probes,
                   stream, prev>>

\* what the steps of a task leave alone, besides what Settle sets
TaskFrame ==
    UNCHANGED <<call, mode, selected, worker_count, created_dirs, parent_mkdirs,
                dir_mkdirs, dirs, stream, prev>>
Continue(i, t2) ==
    /\ task' = [task EXCEPT ![i] = t2]
    /\ UNCHANGED <<pc, result, spool, sem, firstErr>>

\* async with async_open(zip_path, mode="rb") as src
OpenSrc(i) ==
    /\ task[i].pc = "open_src"
    /\ IF call.kind = "unzip" \/ spool.exists
       THEN Continue(i, [task[i] EXCEPT !.pc = "header"])
       ELSE Fail(i, task[i], ErrNoFile)
    /\ TaskFrame /\ UNCHANGED <<fs, opened, cache, probes>>

\* src.seek(header_offset); _read_local_header(src, file_name)
\* for contrast, an extractor that would open the destination before it
\* validates the local header
ReadHeaderDestinationFirst(i) ==
    /\ task[i].pc = "header"
    /\ fs' = [p \in DOMAIN fs \cup {DestPath(selected[i].filename)} |->
                IF p = DestPath(selected[i].filename) THEN <<>> ELSE fs[p]]
    /\ IF selected[i].header = "ok"
       THEN Continue(i, [task[i] EXCEPT !.pc = "open_out"])
       ELSE Fail(i, task[i], ErrHeader)
    /\ TaskFrame /\ UNCHANGED <<opened, cache, probes>>
\* as the code has it
ReadHeader(i) ==
    /\ task[i].pc = "header"
    /\ IF selected[i].header = "ok"
       THEN Continue(i, [task[i] EXCEPT !.pc = "open_out"])
       ELSE Fail(i, task[i], ErrHeader)
    /\ TaskFrame /\ UNCHANGED <<fs, opened, cache, probes>>

\* a file opened "wb+" on path: created or truncated
Truncated(path) == [p \in DOMAIN fs \cup {path} |-> IF p = path THEN <<>> ELSE fs[p]]
\* out.write(data) on a handle whose position is pos
WriteAt(content, pos, data) ==
    [k \in 1..Max(Len(content), pos + Len(data)) |->
        IF k > pos /\ k <= pos + Len(data) THEN data[k - pos]
        ELSE IF k <= Len(content) THEN content[k] ELSE "0"]
\* for contrast, a writer that would not advance its file position
WrittenAtStart(path, pos, data) == [fs EXCEPT ![path] = WriteAt(@, 0, data)]
\* as the code has it
Written(path, pos, data) == [fs EXCEPT ![path] = WriteAt(@, pos, data)]

\* _write_stored_entry: while remaining > 0
stored_entry_start(remaining) == IF remaining > 0 THEN "stored" ELSE "close"
\* _write_compressed_entry: if remaining == 0
\* for contrast, a copier without the remaining == 0 case
compressed_entry_start_no_empty_case(remaining) == "comp_first"
\* as the code has it
compressed_entry_start(remaining) ==
    IF remaining = 0 THEN "comp_empty" ELSE "comp_first"

\* where task i writes
OutPath(i) == DestPath(selected[i].filename)

\* async with async_open(str(unpack_filename_path), "wb+") as out, and the
\* dispatch on the compression method
OpenOut(i) ==
    /\ task[i].pc = "open_out"
    /\ LET in_file == selected[i]
           remaining == in_file.compress_size
           read_block == select_buffer_size(in_file.file_size, call.buffer_size)
           next == IF in_file.compress_type = "stored"
                   THEN stored_entry_start(remaining)
                   ELSE compressed_entry_start(remaining)
       IN /\ fs' = Truncated(OutPath(i))
          /\ opened' = opened \cup {OutPath(i)}
          /\ Continue(i, [task[i] EXCEPT !.pc = next, !.remaining = remaining,
                                         !.read_block = read_block])
    /\ TaskFrame /\ UNCHANGED <<cache, probes>>

\* ------------------------------------------------------------ stream copier
\* what src.read(n) may return to task i.  An archive file gives all it has,
\* up to n; the source object of a direct call may also give fewer (but at
\* least one byte until it is exhausted)
Reads(i, n) ==
    LET avail == Drop(selected[i].data, task[i].rpos)
    IN IF mode = "direct" /\ avail # <<>>
       THEN { Take(avail, k) : k \in 1..Min(n, Len(avail)) }
       ELSE { Take(avail, n) }

\* read_block if remaining > read_block else remaining
\* for contrast, a copier that would always ask for a whole block
ChunkSizeWholeBlock(t) == t.read_block
\* for contrast, a copier that would ask for all that is outstanding at once
ChunkSizeAllOutstanding(t) == t.remaining
\* as the code has it
ChunkSize(t) == IF t.remaining > t.read_block THEN t.read_block ELSE t.remaining

\* the task record after a read of ChunkSize(t) bytes that returned buf
AfterRead(t, buf) ==
    [t EXCEPT !.nreads = @ + 1, !.rpos = @ + Len(buf), !.asked = ChunkSize(t),
              !.eof = @ \/ (buf = <<>> /\ t.remaining > 0)]
\* the task record after a write of data
AfterWrite(t, data) == [t EXCEPT !.nwrites = @ + 1, !.wpos = @ + Len(data)]

\* the test that ends _write_stored_entry's read with an error
StoredTruncated(buf) == buf = <<>>

\* one round of the loop of _write_stored_entry
StoredStep(i) ==
    /\ task[i].pc = "stored"
    /\ \E buf \in Reads(i, ChunkSize(task[i])) :
         LET t1 == AfterRead(task[i], buf)
             t2 == [AfterWrite(t1, buf) EXCEPT !.remaining = @ - Len(buf)]
         IN IF StoredTruncated(buf)
            THEN Fail(i, t1, ErrStoredIncomplete) /\ UNCHANGED fs
            ELSE /\ fs' = Written(OutPath(i), task[i].wpos, buf)
                 /\ Continue(i, [t2 EXCEPT !.pc = IF t2.remaining > 0 THEN "stored"
                                                  ELSE "close"])
    /\ TaskFrame /\ UNCHANGED <<opened, cache, probes>>

\* _probe_window_bits: the first variant whose fresh decoder takes buf, 0 if none
RECURSIVE ProbeFrom(_, _)
ProbeFrom(buf, k) ==
    IF k > Len(ProbeOrder) THEN 0
    ELSE IF ~Decompress(NewDecoder(ProbeOrder[k]), buf).err THEN ProbeOrder[k]
    ELSE ProbeFrom(buf, k + 1)
\* for contrast, a probe that would settle for the last variant it tried
probe_window_bits_last_resort(buf) ==
    IF ProbeFrom(buf, 1) = 0 THEN ProbeOrder[Len(ProbeOrder)] ELSE ProbeFrom(buf, 1)
\* as the code has it
probe_window_bits(buf) == ProbeFrom(buf, 1)

\* _detect_window_bits: [window_bits (0: the probe raised), cache, probed]
\* for contrast, a detector that would probe without looking into the cache
detect_window_bits_uncached(buf, cache_key) ==
    LET window_bits == probe_window_bits(buf)
    IN [window_bits |-> window_bits,
        cache |-> IF cache_key # "" /\ window_bits # 0
                  THEN [cache EXCEPT ![cache_key] = window_bits] ELSE cache,
        probed |-> TRUE]
\* as the code has it
detect_window_bits(buf, cache_key) ==
    IF cache_key # "" /\ cache[cache_key] # 0
    THEN [window_bits |-> cache[cache_key], cache |-> cache, probed |-> FALSE]
    ELSE LET window_bits == probe_window_bits(buf)
         IN [window_bits |-> window_bits,
             cache |-> IF cache_key # "" /\ window_bits # 0
                       THEN [cache EXCEPT ![cache_key] = window_bits] ELSE cache,
             probed |-> TRUE]

\* the cache key a task passes down
TaskCacheKey == IF mode = "direct" THEN call.cache_key ELSE CacheKey

\* _write_compressed_entry with remaining == 0: await out.write(b"")
CompEmpty(i) ==
    /\ task[i].pc = "comp_empty"
    /\ fs' = Written(OutPath(i), task[i].wpos, <<>>)
    /\ Continue(i, [AfterWrite(task[i], <<>>) EXCEPT !.pc = "close"])
    /\ TaskFrame /\ UNCHANGED <<opened, cache, probes>>

\* where a round of the decode loop goes once its output is written: out of
\* the loop to the flush when nothing is outstanding, to the next read otherwise
\* for contrast, a loop that would return without writing the flush output
AfterRoundNoFlush(remaining) == IF remaining <= 0 THEN "close" ELSE "comp_next"
\* as the code has it
AfterRound(remaining) == IF remaining <= 0 THEN "flush" ELSE "comp_next"

\* _write_compressed_entry: the first read, window detection, the decoder and
\* the first round of the decode loop
CompFirst(i) ==
    /\ task[i].pc = "comp_first"
    /\ \E buf \in Reads(i, ChunkSize(task[i])) :
       \E d \in {detect_window_bits(buf, TaskCacheKey)} :
       \E r \in {Decompress(NewDecoder(d.window_bits), buf)} :
         LET t1 == AfterRead(task[i], buf)
             t2 == [t1 EXCEPT !.remaining = @ - Len(buf)]
             t3 == [AfterWrite(t2, r.out) EXCEPT !.dec = r.dec]
         IN IF buf = <<>>
            THEN Fail(i, t1, ErrCompIncomplete) /\ UNCHANGED <<fs, cache, probes>>
            ELSE /\ cache' = d.cache
                 /\ probes' = IF d.probed THEN probes + 1 ELSE probes
                 /\ IF d.window_bits = 0
                    THEN Fail(i, t2, ErrWindow) /\ UNCHANGED fs
                    ELSE IF r.err
                    THEN Fail(i, [t2 EXCEPT !.dec = r.dec], ErrDecode) /\ UNCHANGED fs
                    ELSE /\ fs' = Written(OutPath(i), task[i].wpos, r.out)
                         /\ Continue(i, [t3 EXCEPT !.pc = AfterRound(t3.remaining)])
    /\ TaskFrame /\ UNCHANGED opened

\* the test that ends a later read of _write_compressed_entry with an error
\* for contrast, a copier that would take an empty read for the end of the entry
CompTruncatedNever(buf, remaining) == FALSE
\* as the code has it
CompTruncated(buf, remaining) == buf = <<>> /\ remaining > 0

\* the next read and the next round of the decode loop
CompNext(i) ==
    /\ task[i].pc = "comp_next"
    /\ \E buf \in Reads(i, ChunkSize(task[i])) :
         LET t1 == AfterRead(task[i], buf)
             t2 == [t1 EXCEPT !.remaining = @ - Len(buf)]
             r == Decompress(task[i].dec, buf)
             t3 == [AfterWrite(t2, r.out) EXCEPT !.dec = r.dec]
         IN IF CompTruncated(buf, t2.remaining)
            THEN Fail(i, t2, ErrCompIncomplete) /\ UNCHANGED fs
            ELSE IF buf = <<>>
            THEN Continue(i, [t2 EXCEPT !.pc = "flush"]) /\ UNCHANGED fs
            ELSE IF r.err
            THEN Fail(i, [t2 EXCEPT !.dec = r.dec], ErrDecode) /\ UNCHANGED fs
            ELSE /\ fs' = Written(OutPath(i), task[i].wpos, r.out)
                 /\ Continue(i, [t3 EXCEPT !.pc = AfterRound(t3.remaining)])
    /\ TaskFrame /\ UNCHANGED <<opened, cache, probes>>

\* await out.write(decomp.flush())
CompFlush(i) ==
    /\ task[i].pc = "flush"
    /\ fs' = Written(OutPath(i), task[i].wpos, Flush(task[i].dec))
    /\ Continue(i, [AfterWrite(task[i], Flush(task[i].dec)) EXCEPT !.pc = "close"])
    /\ TaskFrame /\ UNCHANGED <<opened, cache, probes>>

\* the copy is over: both handles are closed and the semaphore slot given back
Close(i) ==
    /\ task[i].pc = "close"
    /\ Settle(i, [task[i] EXCEPT !.pc = "done"], NoErr, TRUE)
    /\ TaskFrame /\ UNCHANGED <<fs, opened, cache, probes>>

\* what gather() does to the tasks it was given when it hands err to the
\* caller: nothing, they are left running
\* for contrast, a gather that would cancel the tasks still running
gathered_cancelling(t, err) ==
    [i \in DOMAIN t |->
        IF err # NoErr /\ t[i].pc \notin {"done", "failed"}
        THEN [t[i] EXCEPT !.pc = "failed", !.err = "CancelledError"]
        ELSE t[i]]
\* as the code has it
gathered(t, err) == t

\* await asyncio.gather(...): the caller is resumed with the first exception
\* set on the gathering future, or when every task is done
Return ==
    /\ pc = "running" /\ mode = "gather"
    /\ firstErr # NoErr \/ \A i \in Tasks : task[i].pc = "done"
    /\ Leave(IF firstErr # NoErr THEN firstErr ELSE OK)
    /\ task' = gathered(task, firstErr)
    /\ UNCHANGED <<call, mode, selected, worker_count, sem, firstErr,
                   created_dirs, parent_mkdirs, dir_mkdirs, dirs, fs, opened,
                   cache, probes, stream, prev>>

Next ==
    \/ Begin
    \/ \E i \in Tasks : Admit(i)
    \/ \E i \in Tasks : OpenSrc(i)
    \/ \E i \in Tasks : ReadHeader(i)
    \/ \E i \in Tasks : OpenOut(i)
    \/ \E i \in Tasks : StoredStep(i)
    \/ \E i \in Tasks : CompEmpty(i)
    \/ \E i \in Tasks : CompFirst(i)
    \/ \E i \in Tasks : CompNext(i)
    \/ \E i \in Tasks : CompFlush(i)
    \/ \E i \in Tasks : Close(i)
    \/ Return

Spec == Init /\ [][Next]_vars

\* calls that run their entries under gather whenever there are two or more;
\* the event loop runs every task that is ready, so a step that stays
\* possible is taken
InitConc ==
    /\ InitState
    /\ cache = [k \in CacheKeys |-> 0]
    /\ call \in [kind : {"unzip"}, zip_file : ZipFiles, files : {NoFiles},
                 regex_files : {NoRegex}, buffer_size : BufferArgs,
                 max_workers : 2..MaxWorkers, backend : {""},
                 has_async : {TRUE}, in_memory : {FALSE},
                 remaining : {0}, read_block : {0}, source : {<<>>},
                 cache_key : {""}, chunking : {"none"}]
SpecConc == InitConc /\ [][Next]_vars /\ WF_vars(Next)

\* ------------------------------------------- the copiers called on their own
\* _write_stored_entry(src, out, remaining, read_block, file_name) and
\* _write_compressed_entry(..., cache_key, error_types, factory) called with
\* a source object of the caller's: call.source is what the source has to
\* give, call.remaining the size the entry declares
MaxDeclared == 4
MaxBlock == 2

SinkName == <<"s">>
CopyPayloads == {<<>>, <<"x">>, <<"x", "y">>}
FullSources ==
    { Encode(w, pl) : w \in {RawWbits, GzipWbits, ZlibWbits}, pl \in CopyPayloads }
    \cup {<<"x", "y", "x">>, <<"P", "x">>}
CopySources == { Take(src, n) : src \in FullSources, n \in 0..MaxDeclared }

InitCopy ==
    /\ InitState
    /\ cache \in { [k \in CacheKeys |-> IF k = "key" THEN w ELSE 0] :
                     w \in {0, RawWbits, GzipWbits, ZlibWbits} }
    /\ call \in [kind : {"copy_stored", "copy_compressed"}, zip_file : {NotZip},
                 files : {NoFiles}, regex_files : {NoRegex}, buffer_size : {0},
                 max_workers : {1}, backend : {""}, has_async : {TRUE},
                 in_memory : {FALSE},
                 remaining : 0..MaxDeclared, read_block : 1..MaxBlock,
                 source : CopySources, cache_key : {"", "key"},
                 chunking : {"none"}]

\* the call of the copier, up to its first read or write
CallCopy ==
    /\ pc = "start" /\ call.kind \in {"copy_stored", "copy_compressed"}
    /\ pc' = "running"
    /\ mode' = "direct"
    /\ selected' = << Entry(SinkName,
                            IF call.kind = "copy_stored" THEN "stored" ELSE "deflated",
                            call.remaining, "ok", call.source, <<>>) >>
    /\ task' = << [NewTask EXCEPT
                     !.pc = IF call.kind = "copy_stored"
                            THEN stored_entry_start(call.remaining)
                            ELSE compressed_entry_start(call.remaining),
                     !.remaining = call.remaining,
                     !.read_block = call.read_block] >>
    /\ fs' = Truncated(DestPath(SinkName))
    /\ UNCHANGED <<call, result, worker_count, sem, firstErr, created_dirs,
                   parent_mkdirs, dir_mkdirs, dirs, opened, cache, probes, spool,
                   stream, prev>>

NextCopy ==
    \/ CallCopy
    \/ \E i \in Tasks : StoredStep(i)
    \/ \E i \in Tasks : CompEmpty(i)
    \/ \E i \in Tasks : CompFirst(i)
    \/ \E i \in Tasks : CompNext(i)
    \/ \E i \in Tasks : CompFlush(i)
    \/ \E i \in Tasks : Close(i)

SpecCopy == InitCopy /\ [][NextCopy]_vars

\* ------------------------------------------------------------- unzip_stream
\* one item the chunk iterable yields: bytes, an object that is no bytes, or
\* an exception raised by the iterable
BytesChunk(data) == [kind |-> "bytes", data |-> data]
BadChunk == [kind |-> "bad", data |-> <<>>]
RaisingChunk == [kind |-> "raise", data |-> <<>>]

\* the chunk sequences the model draws from, for the sender of zip_file
ChunksOf(zip_file, chunking) ==
    LET im == Image(zip_file)
    IN CASE chunking = "whole" -> << BytesChunk(im) >>
         [] chunking = "split" ->
                << BytesChunk(<<im[1]>>), BytesChunk(<<>>), BytesChunk(<<im[2]>>) >>
         [] chunking = "bad" -> << BytesChunk(<<im[1]>>), BadChunk >>
         [] chunking = "raise" -> << BytesChunk(<<im[1]>>), RaisingChunk >>
         [] chunking = "cut" -> << BytesChunk(<<im[1]>>) >>
         [] OTHER -> <<>>
Chunkings == {"whole", "split", "bad", "raise", "cut"}

StreamFilesArgs == {NoFiles, Files({Cat[2].filename, Cat[4].filename})}

InitStream ==
    /\ pc = "start" /\ mode = "none" /\ result = NoErr
    /\ selected = <<>> /\ worker_count = 0 /\ sem = 0 /\ task = <<>>
    /\ firstErr = NoErr /\ created_dirs = {}
    /\ parent_mkdirs = [p \in AllDirs |-> 0] /\ dir_mkdirs = [p \in AllDirs |-> 0]
    /\ dirs = {} /\ fs = [p \in {} |-> <<>>] /\ opened = {}
    /\ cache = [k \in CacheKeys |-> 0] /\ probes = 0
    /\ spool = NoSpool /\ prev = NoPrev
    /\ call \in [kind : {"unzip_stream"}, zip_file : ZipFiles, files : StreamFilesArgs,
                 regex_files : {NoRegex}, buffer_size : BufferArgs,
                 max_workers : 1..MaxWorkers, backend : BackendArgs,
                 has_async : BOOLEAN, in_memory : BOOLEAN,
                 remaining : {0}, read_block : {0}, source : {<<>>},
                 cache_key : {""}, chunking : Chunkings]
    /\ stream = ChunksOf(call.zip_file, call.chunking)

\* what the steps of unzip_stream before the extraction leave alone
SpoolFrame ==
    UNCHANGED <<call, mode, selected, worker_count, sem, task, firstErr,
                created_dirs, parent_mkdirs, dir_mkdirs, dirs, fs, opened, cache,
                probes, prev>>

\* unzip_stream up to its first chunk: the in-memory buffer, or mkstemp
StreamBegin ==
    /\ pc = "start" /\ call.kind = "unzip_stream"
    /\ IF call.in_memory
       THEN pc' = "mem_spool" /\ spool' = [exists |-> FALSE, content |-> <<>>]
       ELSE pc' = "spool" /\ spool' = [exists |-> TRUE, content |-> <<>>]
    /\ UNCHANGED <<result, stream>>
    /\ SpoolFrame

\* async for chunk in chunk_iterable: one chunk, in either spool mode
SpoolChunk ==
    /\ pc \in {"spool", "mem_spool"} /\ stream # <<>>
    /\ LET chunk == Head(stream)
       IN /\ stream' = Tail(stream)
          /\ IF chunk.kind = "raise" THEN Leave(ErrSource)
             ELSE IF chunk.kind = "bad" THEN Leave(ErrChunkType)
             ELSE /\ spool' = [spool EXCEPT !.content = @ \o chunk.data]
                  /\ UNCHANGED <<pc, result>>
    /\ SpoolFrame

\* the iterable is exhausted: temp_file.flush() and the call of unzip
SpoolEnd ==
    /\ pc = "spool" /\ stream = <<>>
    /\ pc' = "unzip"
    /\ UNCHANGED <<result, spool, stream>>
    /\ SpoolFrame

\* _extract_from_buffer up to its loop: ZipFile(buf) and the selection
MemBegin ==
    /\ pc = "mem_spool" /\ stream = <<>>
    /\ LET zf == ParseZip(spool.content)
           whitelist == file_whitelist(call.files)
           regex_patterns == compile_patterns(call.regex_files)
           selected_entries ==
               SelectSeq(infolist(zf),
                         LAMBDA info : should_extract(info.filename, whitelist, regex_patterns))
       IN IF ~is_zipfile(zf)
          THEN Leave(ErrNotZip) /\ UNCHANGED <<mode, selected, task, created_dirs>>
          ELSE IF selected_entries = <<>>
          THEN Leave(OK) /\ UNCHANGED <<mode, selected, task, created_dirs>>
          ELSE /\ pc' = "running"
               /\ mode' = "mem"
               /\ selected' = selected_entries
               /\ task' = [i \in 1..Len(selected_entries) |-> NewTask]
               /\ created_dirs' = {}
               /\ UNCHANGED <<result, spool>>
    /\ UNCHANGED <<call, worker_count, sem, firstErr, parent_mkdirs, dir_mkdirs,
                   dirs, fs, opened, cache, probes, stream, prev>>

\* archive.open(entry) and src.read() of the standard zipfile module on one
\* entry: [err, out] with out what was read before err
ZipRead(e) ==
    LET body == Take(e.data, e.compress_size)
        r == Decompress(NewDecoder(RawWbits), body)
        got == IF e.compress_type = "stored" THEN body ELSE r.out
    IN IF e.header # "ok" THEN [err |-> ErrBadMagic, out |-> <<>>, opened |-> FALSE]
       ELSE IF e.compress_type # "stored" /\ r.err
       THEN [err |-> ErrDecode, out |-> <<>>, opened |-> TRUE]
       ELSE IF Len(body) < e.compress_size
               \/ (e.compress_type # "stored" /\ e.compress_size > 0 /\ r.dec.st # "end")
       THEN [err |-> ErrEOF, out |-> got, opened |-> TRUE]
       ELSE IF got # e.payload THEN [err |-> ErrCRC, out |-> got, opened |-> TRUE]
       ELSE [err |-> NoErr, out |-> got, opened |-> TRUE]

\* one round of the loop of _extract_from_buffer: one entry, start to end
MemEntry(i) ==
    /\ mode = "mem" /\ pc = "running"
    /\ task[i].pc = "queued"
    /\ \A j \in Tasks : j < i => task[j].pc = "done"
    /\ LET entry == selected[i]
           unpack_filename_path == DestPath(entry.filename)
           parent_key == Parent(unpack_filename_path)
           z == ZipRead(entry)
           err == IF ~z.opened THEN z.err
                  ELSE IF ~call.has_async THEN ErrNotCallable
                  ELSE z.err
       IN IF is_dir(entry.filename)
          THEN /\ dir_mkdirs' = [dir_mkdirs EXCEPT ![unpack_filename_path] = @ + 1]
               /\ dirs' = dirs \cup WithParents(unpack_filename_path)
               /\ Settle(i, [task[i] EXCEPT !.pc = "done"], NoErr, FALSE)
               /\ UNCHANGED <<created_dirs, parent_mkdirs, fs, opened>>
          ELSE /\ IF NeedsMkdir(parent_key)
                  THEN /\ parent_mkdirs' = [parent_mkdirs EXCEPT ![parent_key] = @ + 1]
                       /\ dirs' = dirs \cup WithParents(parent_key)
                       /\ created_dirs' = created_dirs \cup {parent_key}
                  ELSE UNCHANGED <<parent_mkdirs, dirs, created_dirs>>
               /\ IF z.opened /\ call.has_async
                  THEN /\ fs' = [p \in DOMAIN fs \cup {unpack_filename_path} |->
                                    IF p = unpack_filename_path THEN z.out ELSE fs[p]]
                       /\ opened' = opened \cup {unpack_filename_path}
                  ELSE UNCHANGED <<fs, opened>>
               /\ IF err = NoErr
                  THEN Settle(i, [task[i] EXCEPT !.pc = "done"], NoErr, FALSE)
                  ELSE Settle(i, [task[i] EXCEPT !.pc = "failed", !.err = err], err, FALSE)
               /\ UNCHANGED dir_mkdirs
    /\ UNCHANGED <<call, mode, selected, worker_count, cache, probes, stream, prev>>

\* every task of the call has come to its end
Quiet == \A i \in Tasks : task[i].pc \in {"done", "failed"}

\* the caller makes the same request again with the other value of in_memory,
\* into an emptied destination; prev keeps what the first call gave
CallOtherMode ==
    /\ call.kind = "unzip_stream" /\ pc = "done" /\ Quiet /\ ~prev.set
    /\ prev' = [set |-> TRUE, result |-> result, fs |-> fs]
    /\ call' = [call EXCEPT !.in_memory = ~@]
    /\ stream' = ChunksOf(call.zip_file, call.chunking)
    /\ pc' = "start" /\ mode' = "none" /\ result' = NoErr
    /\ selected' = <<>> /\ worker_count' = 0 /\ sem' = 0 /\ task' = <<>>
    /\ firstErr' = NoErr /\ created_dirs' = {}
    /\ parent_mkdirs' = [p \in AllDirs |-> 0] /\ dir_mkdirs' = [p \in AllDirs |-> 0]
    /\ dirs' = {} /\ fs' = [p \in {} |-> <<>>] /\ opened' = {}
    /\ spool' = NoSpool
    /\ UNCHANGED <<cache, probes>>

NextStream ==
    \/ StreamBegin
    \/ SpoolChunk
    \/ SpoolEnd
    \/ MemBegin
    \/ \E i \in Tasks : MemEntry(i)
    \/ CallOtherMode
    \/ Next

SpecStream == InitStream /\ [][NextStream]_vars

\* ------------------------------------------- the helpers called on their own
\* _select_buffer_size(entry_size, user_buffer): entry sizes on and about the
\* two thresholds, overrides about zero (0 also stands for None) and at the
\* three sizes the policy knows
EntrySizes ==
    {0, 1, SmallEntryLimit - 1, SmallEntryLimit, SmallEntryLimit + 1,
     LargeEntryLimit - 1, LargeEntryLimit, LargeEntryLimit + 1, 2 * LargeEntryLimit}
UserBuffers ==
    ((0 - MaxBuf - 1)..(MaxBuf + 1)) \cup {SmallBuffer, DEFAULT_READ_BUFFER_SIZE, LargeBuffer}

InitBuf ==
    /\ InitState
    /\ cache = [k \in CacheKeys |-> 0]
    /\ call \in [kind : {"select_buffer_size"}, entry_size : EntrySizes,
                 user_buffer : UserBuffers]

\* the call and its return: task[1].read_block is what it returned
CallSelectBufferSize ==
    /\ pc = "start" /\ call.kind = "select_buffer_size"
    /\ task' = << [NewTask EXCEPT
                     !.pc = "done",
                     !.read_block = select_buffer_size(call.entry_size, call.user_buffer)] >>
    /\ pc' = "done" /\ result' = OK
    /\ UNCHANGED <<call, mode, selected, worker_count, sem, firstErr, created_dirs,
                   parent_mkdirs, dir_mkdirs, dirs, fs, opened, cache, probes,
                   spool, stream, prev>>

NextBuf == CallSelectBufferSize

SpecBuf == InitBuf /\ [][NextBuf]_vars

\* _read_local_header(src, file_name) called on a source of the caller's.
\* Bytes are numbers here.  A source is a local header (good or bad
\* signature, the two length fields as low and high byte), the filename and
\* extra blocks it announces and one payload byte, cut somewhere
MaxLenByte == 2
LOCAL_FILE_HEADER_SIZE == 30
LOCAL_FILE_HEADER_SIGNATURE == <<80, 75, 3, 4>>

\* int.from_bytes(b, "little") of two bytes
\* for contrast, a reader that would take the high byte first
from_bytes_big(b) == 256 * b[1] + b[2]
\* as the code has it
from_bytes_little(b) == b[1] + 256 * b[2]
\* the length a ZIP writer means by a two-byte field: low byte first
Announced(field) == field[1] + 256 * field[2]

Signatures == {LOCAL_FILE_HEADER_SIGNATURE, <<80, 75, 1, 2>>, <<0, 75, 3, 4>>}
LengthFields == { <<lo, hi>> : lo \in 0..MaxLenByte, hi \in 0..1 }
HeaderBytes(sig, name_field, extra_field) ==
    [k \in 1..LOCAL_FILE_HEADER_SIZE |->
        IF k <= 4 THEN sig[k]
        ELSE IF k \in {27, 28} THEN name_field[k - 26]
        ELSE IF k \in {29, 30} THEN extra_field[k - 28]
        ELSE 0]
Record(sig, name_field, extra_field) ==
    HeaderBytes(sig, name_field, extra_field)
    \o [k \in 1..Announced(name_field) |-> 110]
    \o [k \in 1..Announced(extra_field) |-> 101]
    \o <<112>>
\* where a source is cut: before the signature ends, one byte short of the
\* fixed record, one byte short of the payload, or not at all
Cuts(rec) == {0, 3, LOCAL_FILE_HEADER_SIZE - 1, Len(rec) - 2, Len(rec)}
HeaderSources ==
    UNION { { Take(Record(sig, nf, xf), c) : c \in Cuts(Record(sig, nf, xf)) } :
              sig \in Signatures, nf \in LengthFields, xf \in LengthFields }

InitHeader ==
    /\ InitState
    /\ cache = [k \in CacheKeys |-> 0]
    /\ call \in [kind : {"read_local_header"}, source : HeaderSources]

HeaderTask ==
    [pc |-> "queued", rpos |-> 0, nreads |-> 0, name_length |-> 0,
     extra_length |-> 0, err |-> NoErr]
\* src.read(n) at the cursor
HeaderRead(t, n) == Take(Drop(call.source, t.rpos), n)
\* the cursor after a read that returned buf
HeaderAfterRead(t, buf) == [t EXCEPT !.rpos = @ + Len(buf), !.nreads = @ + 1]
\* where _read_local_header goes on once name_length and extra_length are known
HeaderNext(t) ==
    IF t.pc = "hdr_fixed" /\ t.name_length # 0 THEN "hdr_name"
    ELSE IF t.pc \in {"hdr_fixed", "hdr_name"} /\ t.extra_length # 0 THEN "hdr_extra"
    ELSE "done"

HeaderFrame ==
    UNCHANGED <<call, mode, selected, worker_count, sem, firstErr, created_dirs,
                parent_mkdirs, dir_mkdirs, dirs, fs, opened, cache, probes,
                spool, stream, prev>>
\* the step of _read_local_header that ends in t: the return, if t is done
HeaderStep(t) ==
    /\ task' = << t >>
    /\ IF t.pc = "failed" THEN pc' = "done" /\ result' = t.err
       ELSE IF t.pc = "done" THEN pc' = "done" /\ result' = OK
       ELSE pc' = "running" /\ UNCHANGED result
    /\ HeaderFrame

\* header = await src.read(LOCAL_FILE_HEADER_SIZE), the test, the two lengths
ReadFixedRecord ==
    /\ pc = "start" /\ call.kind = "read_local_header"
    /\ LET header == HeaderRead(HeaderTask, LOCAL_FILE_HEADER_SIZE)
           t == HeaderAfterRead([HeaderTask EXCEPT !.pc = "hdr_fixed"], header)
       IN IF Len(header) # LOCAL_FILE_HEADER_SIZE
             \/ Take(header, 4) # LOCAL_FILE_HEADER_SIGNATURE
          THEN HeaderStep([t EXCEPT !.pc = "failed", !.err = ErrHeader])
          ELSE LET t2 == [t EXCEPT
                            !.name_length = from_bytes_little(<<header[27], header[28]>>),
                            !.extra_length = from_bytes_little(<<header[29], header[30]>>)]
               IN HeaderStep([t2 EXCEPT !.pc = HeaderNext(t2)])

\* if name_length: filename_bytes = await src.read(name_length)
ReadFilename ==
    /\ pc = "running" /\ call.kind = "read_local_header" /\ task[1].pc = "hdr_name"
    /\ LET t == HeaderAfterRead(task[1], HeaderRead(task[1], task[1].name_length))
       IN HeaderStep([t EXCEPT !.pc = HeaderNext(t)])

\* if extra_length: extra_bytes = await src.read(extra_length)
ReadExtra ==
    /\ pc = "running" /\ call.kind = "read_local_header" /\ task[1].pc = "hdr_extra"
    /\ LET t == HeaderAfterRead(task[1], HeaderRead(task[1], task[1].extra_length))
       IN HeaderStep([t EXCEPT !.pc = HeaderNext(t)])

NextHeader ==
    \/ ReadFixedRecord
    \/ ReadFilename
    \/ ReadExtra

SpecHeader == InitHeader /\ [][NextHeader]_vars

\* ------------------------------------- unzip into a destination that has files
\* the files a destination may hold before the call: one at the path of
\* every file entry of the catalogue, with content no entry has
OldContent == <<"y", "y", "y">>
PreExisting ==
    [p \in { DestPath(Cat[k].filename) : k \in { n \in DOMAIN Cat : ~is_dir(Cat[n].filename) } }
        |-> OldContent]

\* calls of unzip without filters, on an empty destination or on one that
\* holds the files of an earlier extraction
InitOver ==
    /\ pc = "start" /\ mode = "none" /\ result = NoErr
    /\ selected = <<>> /\ worker_count = 0 /\ sem = 0 /\ task = <<>>
    /\ firstErr = NoErr /\ created_dirs = {}
    /\ parent_mkdirs = [p \in AllDirs |-> 0] /\ dir_mkdirs = [p \in AllDirs |-> 0]
    /\ opened = {} /\ probes = 0
    /\ spool = NoSpool /\ stream = <<>> /\ prev = NoPrev
    /\ cache = [k \in CacheKeys |-> 0]
    /\ \E old \in {[p \in {} |-> <<>>], PreExisting} :
         /\ fs = old
         /\ dirs = UNION { WithParents(Parent(p)) : p \in DOMAIN old }
    /\ call \in [kind : {"unzip"}, zip_file : ZipFiles, files : {NoFiles},
                 regex_files : {NoRegex}, buffer_size : BufferArgs,
                 max_workers : 1..MaxWorkers, backend : {""},
                 has_async : {TRUE}, in_memory : {FALSE},
                 remaining : {0}, read_block : {0}, source : {<<>>},
                 cache_key : {""}, chunking : {"none"}]
SpecOver == InitOver /\ [][Next]_vars

\* ------------------------------------------ unzip of archives with such names
InitEscape ==
    /\ InitState
    /\ cache = [k \in CacheKeys |-> 0]
    /\ call \in [kind : {"unzip"}, zip_file : { Zip(entries) : entries \in EscapeLists },
                 files : {NoFiles}, regex_files : {NoRegex}, buffer_size : BufferArgs,
                 max_workers : 1..MaxWorkers, backend : {""},
                 has_async : {TRUE}, in_memory : {FALSE},
                 remaining : {0}, read_block : {0}, source : {<<>>},
                 cache_key : {""}, chunking : {"none"}]
SpecEscape == InitEscape /\ [][Next]_vars

\* ==================================================================== claims
\* the tasks between admission through the gate and completion, and the
\* handles they hold
InFlight == { i \in Tasks : task[i].pc \notin {"queued", "done", "failed"} }
SrcOpen == { i \in Tasks : task[i].pc \notin {"queued", "open_src", "done", "failed"} }
OutOpen == { i \in Tasks :
               task[i].pc \notin {"queued", "open_src", "header", "open_out", "done", "failed"} }
FileEntries(zip_file) ==
    { k \in DOMAIN zip_file.entries : ~is_dir(zip_file.entries[k].filename) }

\* C1: during a call of unzip with concurrency limit n (clamped to at least
\* 1), never more than n entry tasks are between admission and completion,
\* so never more than n source handles and n destination handles are open.
C1_ConcurrencyBound ==
    call.kind = "unzip" =>
        LET n == Max(1, call.max_workers)
        IN /\ Cardinality(InFlight) <= n
           /\ Cardinality(SrcOpen) <= n
           /\ Cardinality(OutOpen) <= n
\* two tasks hold both their handles under limit 2 while a third waits
C1_Witness ==
    /\ call.kind = "unzip" /\ call.max_workers = 2
    /\ Cardinality(OutOpen) = 2
    /\ \E i \in Tasks : task[i].pc = "queued"

\* an entry that is what a ZIP writer puts in an archive for its payload
ValidEntry(e) ==
    /\ e.header = "ok"
    /\ Len(e.data) >= e.compress_size
    /\ IF e.compress_type = "stored" THEN Take(e.data, e.compress_size) = e.payload
       ELSE \/ e.compress_size = 0 /\ e.payload = <<>>
            \/ Take(e.data, e.compress_size) = Encode(RawWbits, e.payload)
ValidArchive(zip_file) ==
    /\ zip_file.is_zip
    /\ \A k \in DOMAIN zip_file.entries : ValidEntry(zip_file.entries[k])
    /\ \A j, k \in FileEntries(zip_file) :
         j # k => DestPath(zip_file.entries[j].filename) # DestPath(zip_file.entries[k].filename)

\* C2: when unzip returns successfully from a valid archive (entries with
\* pairwise distinct destination paths) with no whitelist and no regex
\* filter, every non-directory entry has a file at destination/entry.name
\* holding exactly the entry's original content, whatever the concurrency
\* limit, the buffer size and the interleaving of the tasks.
C2_ExtractsEverything ==
    ( /\ call.kind = "unzip" /\ pc = "done" /\ result = OK
      /\ call.files = NoFiles /\ call.regex_files = NoRegex
      /\ ValidArchive(call.zip_file) )
    => \A k \in FileEntries(call.zip_file) :
         LET e == call.zip_file.entries[k]
         IN /\ DestPath(e.filename) \in DOMAIN fs
            /\ fs[DestPath(e.filename)] = e.payload
            /\ Len(fs[DestPath(e.filename)]) = e.file_size
\* a concurrent run over a stored and a deflated entry, read in several chunks
C2_Witness ==
    /\ call.kind = "unzip" /\ pc = "done" /\ result = OK /\ mode = "gather"
    /\ call.files = NoFiles /\ call.regex_files = NoRegex
    /\ ValidArchive(call.zip_file)
    /\ call.buffer_size = 1
    /\ \E j, k \in FileEntries(call.zip_file) :
         /\ call.zip_file.entries[j].compress_type = "stored"
         /\ call.zip_file.entries[k].compress_type = "deflated"
         /\ call.zip_file.entries[k].compress_size > 1

\* C3: with any subset S of the entry names given as the whitelist, the empty
\* one included, unzip opens a destination file only for entries in S.
C3_WhitelistOnly ==
    (call.kind = "unzip" /\ call.files.given) =>
        \A p \in opened :
            \E k \in DOMAIN call.zip_file.entries :
                /\ call.zip_file.entries[k].filename \in call.files.names
                /\ DestPath(call.zip_file.entries[k].filename) = p

\* the selection rule as the claim states it
ClaimedSelected(info) ==
    /\ ~call.files.given \/ info.filename \in call.files.names
    /\ \/ call.regex_files.form = "none"
       \/ \E k \in DOMAIN call.regex_files.pats : Search(call.regex_files.pats[k], info.filename)
\* C4: an entry is selected if and only if (no whitelist is supplied or its
\* name is in it) and (no regex filter is supplied or its name matches one of
\* the supplied patterns by search); a pattern string acts as a one-element
\* list.
C4_SelectionRule ==
    (call.kind = "unzip" /\ pc = "running") =>
        selected = SelectSeq(infolist(call.zip_file), ClaimedSelected)

\* C5: when the input of unzip is no archive, the call fails with FormatError
\* and has written nothing: no directory made, no file opened, no entry task
\* started, whatever the other arguments are.
C5_NotZipNoWrites ==
    (call.kind = "unzip" /\ call.zip_file = NotZip) =>
        /\ pc = "done" => result = ErrNotZip /\ result \in FormatError
        /\ dirs = {} /\ opened = {} /\ DOMAIN fs = {} /\ task = <<>>
        /\ \A p \in AllDirs : parent_mkdirs[p] = 0 /\ dir_mkdirs[p] = 0
\* a plain file given together with an unknown backend, no I/O backend and filters
C5_Witness ==
    /\ call.kind = "unzip" /\ call.zip_file = NotZip /\ pc = "done"
    /\ call.backend = "bogus" /\ ~call.has_async /\ call.files.given
    /\ result = ErrNotZip

\* C8: within one call, the file entries that share a parent directory make
\* the creation call for that parent exactly once between them, under every
\* concurrency limit and interleaving, and created_dirs holds that path.
\* Counted are the calls file entries make for their parent; the call a
\* directory entry makes for its own path is counted in dir_mkdirs.
C8_ParentCreatedOnce ==
    call.kind = "unzip" =>
        /\ \A p \in AllDirs : parent_mkdirs[p] <= 1
        /\ \A p \in AllDirs : p \in created_dirs <=> parent_mkdirs[p] = 1
        /\ \A i \in Tasks :
             (task[i].pc # "queued" /\ ~is_dir(selected[i].filename))
             => /\ parent_mkdirs[Parent(OutPath(i))] = 1
                /\ Parent(OutPath(i)) \in created_dirs
\* two file entries of one directory, both running at once
C8_Witness ==
    /\ call.kind = "unzip" /\ mode = "gather"
    /\ \E i, j \in InFlight :
         /\ i # j
         /\ Parent(OutPath(i)) = Parent(OutPath(j))
         /\ parent_mkdirs[Parent(OutPath(i))] = 1

\* C6: in copy_stored and in copy_compressed, whenever a read comes back
\* empty while bytes of the declared compressed size are outstanding, on the
\* first read or a later one, the copy fails with TruncatedEntryError and
\* does not complete successfully.
C6_TruncationDetected ==
    \A i \in Tasks :
        task[i].eof =>
            /\ task[i].pc = "failed"
            /\ task[i].err \in TruncatedEntryError
            /\ result \in TruncatedEntryError
            /\ task[i].err = IF selected[i].compress_type = "stored"
                             THEN ErrStoredIncomplete ELSE ErrCompIncomplete
\* a compressed copy whose source ends on a read after the first
C6_Witness ==
    /\ call.kind = "copy_compressed"
    /\ \E i \in Tasks : task[i].eof /\ task[i].nreads >= 2 /\ task[i].nwrites >= 1
    /\ result = ErrCompIncomplete

EmptyCompressedCall == call.kind = "copy_compressed" /\ call.remaining = 0
\* C7: copy_compressed with declared compressed size 0 writes one empty
\* output and returns successfully; it reads nothing from the source, does
\* not invoke window detection, creates no decoder and leaves the
\* window-bits cache as it was.
C7_EmptyCompressedEntry ==
    /\ [](EmptyCompressedCall =>
            /\ probes = 0
            /\ \A i \in Tasks :
                 /\ task[i].nreads = 0 /\ task[i].rpos = 0
                 /\ task[i].dec = NoDecoder
                 /\ task[i].pc # "failed"
            /\ pc = "done" =>
                 /\ result = OK
                 /\ task[1].nwrites = 1
                 /\ fs[DestPath(SinkName)] = <<>>)
    /\ [][EmptyCompressedCall => cache' = cache /\ probes' = probes]_vars
\* such a call has returned, with a source that had bytes to give and a cache
\* key that a detection would have filled
C7_Witness ==
    /\ EmptyCompressedCall /\ pc = "done" /\ result = OK
    /\ call.source # <<>> /\ call.cache_key = "key" /\ cache["key"] = 0
    /\ task[1].nwrites = 1


\* C9: in temporary-file spool mode of unzip_stream, however the call ends
\* (success, a non-bytes chunk, the chunk source raising, spooled bytes that
\* are no archive, an entry extraction failing), the temporary spool file
\* does not exist once the call has ended.
C9_SpoolRemoved ==
    (call.kind = "unzip_stream" /\ ~call.in_memory /\ pc = "done") => ~spool.exists
\* an entry fails under gather while a sibling task still holds the spool
\* open: the call has ended with that entry's error and the file is gone
C9_Witness ==
    /\ call.kind = "unzip_stream" /\ ~call.in_memory /\ pc = "done"
    /\ mode = "gather" /\ result = ErrHeader
    /\ \E i \in SrcOpen : TRUE
    /\ ~spool.exists

\* C10: for the same chunk sequence and the same options the two spool modes
\* of unzip_stream give the same outcome: on success the same destination
\* files with the same contents, on failure the same kind of error.
C10_SameOutcome ==
    (call.kind = "unzip_stream" /\ prev.set /\ pc = "done" /\ Quiet)
    => /\ (prev.result = OK) = (result = OK)
       /\ result = OK => fs = prev.fs
       /\ result # OK => ErrClass(result) = ErrClass(prev.result)

\* C11: a call of unzip that names an unknown backend fails with the
\* unknown-backend error (ValueError) before anything else happens: whatever
\* the input file is, archive or not, that is the error raised, and no
\* directory has been created and no destination file opened.
C11_UnknownBackendFirst ==
    ( /\ call.kind = "unzip" /\ pc = "done"
      /\ call.has_async
      /\ ResolveBackend(call.backend) = ErrBackend )
    => /\ result = ErrBackend
       /\ dirs = {} /\ opened = {}

\* C12: with no async file backend configured, unzip_stream fed the whole of
\* an archive fails, in either spool mode, with the missing-backend error
\* (RuntimeError) and has by then created no destination directory and
\* opened no destination file.
C12_NoAsyncFailsFirst ==
    ( /\ call.kind = "unzip_stream" /\ pc = "done"
      /\ ~call.has_async
      /\ call.backend = "" /\ call.zip_file.is_zip
      /\ call.chunking \in {"whole", "split"} )
    => /\ result = ErrNoAsync
       /\ dirs = {} /\ opened = {}

\* no framing variant's fresh decoder takes buf
NoVariantDecodes(buf) ==
    \A k \in DOMAIN ProbeOrder : Decompress(NewDecoder(ProbeOrder[k]), buf).err
\* the step of copy_compressed that probes the first bytes read, those bytes
\* being beyond every variant
FailedProbeStep ==
    /\ call.kind = "copy_compressed"
    /\ probes' = probes + 1
    /\ NoVariantDecodes(Take(call.source, task'[1].rpos))

\* C13 as stated: when none of the three framing variants decodes the prefix,
\* window detection fails with FormatError, the error kind of an invalid
\* local header and of a non-archive input, and stores nothing in the cache.
C13_ProbeFailsWithFormatError ==
    [][FailedProbeStep =>
          /\ ErrClass(result') = ErrClass(ErrHeader)
          /\ cache' = cache]_vars

\* C13 amended: when none of the three framing variants decodes the prefix,
\* window detection fails with the decompression error (zlib.error), which
\* is not the FormatError kind of an invalid local header or a non-archive
\* input, and stores nothing in the window-bits cache.
C13_ProbeFailsWithZlibError ==
    [][FailedProbeStep =>
          /\ result' = ErrWindow
          /\ ErrClass(result') = "zlib.error"
          /\ result' \notin FormatError /\ ErrClass(result') # ErrClass(ErrHeader)
          /\ cache' = cache]_vars
\* a probe has failed in a call that gave a cache key with nothing cached
C13_Witness ==
    /\ call.kind = "copy_compressed" /\ pc = "done" /\ result = ErrWindow
    /\ probes = 1 /\ call.cache_key = "key" /\ cache["key"] = 0
    /\ NoVariantDecodes(Take(call.source, task[1].rpos))

\* C14: the chunk size of an entry is the caller's buffer size when that is
\* a positive number; in every other case (absent, zero or negative) it goes
\* by the entry's uncompressed size: 32 KiB below 1,000,000 bytes, 256 KiB
\* above 100,000,000 bytes, 64 KiB from 1,000,000 to 100,000,000 included.
C14_BufferPolicy ==
    (call.kind = "select_buffer_size" /\ pc = "done")
    => task[1].read_block =
         IF call.user_buffer > 0 THEN call.user_buffer
         ELSE IF call.entry_size < 1000000 THEN 32 * 1024
         ELSE IF call.entry_size > 100000000 THEN 256 * 1024
         ELSE 64 * 1024

\* C15 as stated: skip_local_header fails with FormatError exactly when fewer than 30
\* bytes could be read or the first 4 bytes are not 50 4B 03 04; otherwise it
\* consumes exactly 30 + filename length + extra-field length bytes, the
\* lengths taken little-endian from bytes 26-27 and 28-29, and leaves the
\* cursor on the first payload byte.
C15_HeaderSkipped ==
    (call.kind = "read_local_header" /\ pc = "done")
    => LET src == call.source
           bad == Len(src) < 30 \/ Take(src, 4) # <<80, 75, 3, 4>>
       IN /\ (result = ErrHeader) = bad
          /\ ~bad =>
               /\ result = OK
               /\ task[1].rpos = 30 + (src[27] + 256 * src[28]) + (src[29] + 256 * src[30])

\* C15 amended: skip_local_header fails with FormatError exactly when fewer
\* than 30 bytes could be read or the first 4 bytes are not 50 4B 03 04;
\* otherwise it returns normally having consumed 30 + filename length +
\* extra-field length bytes (lengths little-endian from bytes 26-27 and
\* 28-29), or, when the source ends inside those blocks, having consumed the
\* source to its end.
C15_HeaderSkippedIfPresent ==
    (call.kind = "read_local_header" /\ pc = "done")
    => LET src == call.source
           bad == Len(src) < 30 \/ Take(src, 4) # <<80, 75, 3, 4>>
       IN /\ (result = ErrHeader) = bad
          /\ bad => task[1].nreads = 1
          /\ ~bad =>
               /\ result = OK
               /\ task[1].rpos =
                    Min(Len(src),
                        30 + (src[27] + 256 * src[28]) + (src[29] + 256 * src[30]))
\* a header whose filename length has a high byte and whose extra field is
\* not empty has been skipped, and the cursor is on the payload byte
C15_Witness ==
    /\ call.kind = "read_local_header" /\ pc = "done" /\ result = OK
    /\ call.source[28] = 1 /\ call.source[29] > 0
    /\ task[1].nreads = 3
    /\ task[1].rpos = 30 + 256 + call.source[27] + call.source[29]
    /\ Len(call.source) = task[1].rpos + 1

\* some entry's local header has failed validation
HeaderFailed == \E i \in Tasks : task[i].pc = "failed" /\ task[i].err = ErrHeader
\* C16: once an entry's local header has failed validation the whole run is
\* aborted: from then on no other selected entry starts extraction and no
\* byte is written to any destination file, in sequential and in concurrent
\* mode alike.
C16_HeaderFailureAborts ==
    [][(call.kind = "unzip" /\ HeaderFailed) =>
          /\ fs' = fs /\ opened' = opened
          /\ \A j \in Tasks : task[j].pc = "queued" => task'[j].pc = "queued"]_vars


\* a task of a concurrent run has failed on a truncated entry
TruncatedUnderGather ==
    /\ call.kind = "unzip" /\ mode = "gather"
    /\ \E i \in Tasks : task[i].pc = "failed" /\ task[i].err \in TruncatedEntryError
\* task j has come to its own end with all of its output written
RanToCompletion(j) ==
    /\ task[j].pc = "done"
    /\ task[j].wpos = selected[j].file_size
    /\ OutPath(j) \in DOMAIN fs
    /\ (\A k \in Tasks : k # j => OutPath(k) # OutPath(j))
         => fs[OutPath(j)] = selected[j].payload
\* every task that has started on a well-formed entry has run to completion
StartedHaveCompleted ==
    \A j \in Tasks :
        (task[j].pc # "queued" /\ ~is_dir(selected[j].filename) /\ ValidEntry(selected[j]))
        => RanToCompletion(j)
\* C17: under concurrent extraction, when one entry's task fails with
\* TruncatedEntryError the sibling tasks in flight are not cancelled: each
\* of them runs on to its own completion and writes its full output.
C17_SiblingsRunOn == TruncatedUnderGather ~> StartedHaveCompleted
\* the call has raised the truncation error and a sibling that was still
\* copying when the call returned has since completed its file
C17_Witness ==
    /\ TruncatedUnderGather /\ pc = "done" /\ result \in TruncatedEntryError
    /\ StartedHaveCompleted
    /\ \E i, j \in Tasks :
         /\ task[i].pc = "failed" /\ task[i].err \in TruncatedEntryError
         /\ j # i /\ RanToCompletion(j)
         /\ task[j].nwrites >= 2

\* C18: the concurrency limit is clamped to at least 1 (zero, negative or
\* None count as 1), and whenever the clamped limit is 1 or exactly one entry
\* is selected the entries are extracted strictly one at a time in selection
\* order: entry i+1 starts only after entry i has completed, and once entry
\* i has failed no later entry is started.
C18_ClampedAndSequential ==
    (call.kind = "unzip" /\ mode # "none")
    => LET limit == IF call.max_workers < 1 THEN 1 ELSE call.max_workers
       IN /\ worker_count = limit
          /\ (limit = 1 \/ Len(selected) = 1) =>
               /\ Cardinality(InFlight) <= 1
               /\ \A i \in Tasks :
                    task[i].pc # "queued" => \A j \in Tasks : j < i => task[j].pc = "done"
               /\ \A i \in Tasks :
                    task[i].pc = "failed" => \A j \in Tasks : j > i => task[j].pc = "queued"
\* a call with a negative limit has completed its first entry, failed on the
\* second of three and left the third unstarted
C18_Witness ==
    /\ call.kind = "unzip" /\ call.max_workers < 0 /\ pc = "done"
    /\ Len(selected) = 3
    /\ task[1].pc = "done" /\ task[1].nwrites > 0
    /\ task[2].pc = "failed" /\ task[3].pc = "queued"

\* C19: under concurrent extraction each selected entry writes to its own
\* destination path: no two entry tasks of one call ever have the same
\* destination file open for writing.
C19_DistinctDestinations ==
    (call.kind = "unzip" /\ mode = "gather")
    => \A i, j \in OutOpen : i # j => OutPath(i) # OutPath(j)

\* a call of copy_stored for N declared bytes on a source that has them
StoredCopyOfRegion ==
    /\ call.kind = "copy_stored"
    /\ Len(call.source) >= call.remaining
\* C20: for every N >= 0, every chunk size >= 1 and every source that gives
\* between 1 and the requested number of bytes on each read, copy_stored
\* writes exactly N bytes, the N-byte source region in content and order,
\* whatever the chunk size and however the source splits its reads, and
\* issues no read beyond them.
C20_StoredRoundTrip ==
    /\ (StoredCopyOfRegion /\ mode = "direct")
       => /\ task[1].pc # "failed"
          /\ task[1].rpos <= call.remaining
          /\ task[1].rpos = task[1].wpos
          /\ task[1].nreads = task[1].nwrites
          /\ fs[DestPath(SinkName)] = Take(call.source, task[1].wpos)
    /\ (StoredCopyOfRegion /\ pc = "done")
       => /\ result = OK
          /\ task[1].rpos = call.remaining
          /\ Len(fs[DestPath(SinkName)]) = call.remaining
          /\ fs[DestPath(SinkName)] = Take(call.source, call.remaining)
\* a copy of 3 bytes with chunk size 2 from a source that gave one byte per
\* read and had more bytes than the 3 has returned
C20_Witness ==
    /\ StoredCopyOfRegion /\ pc = "done" /\ result = OK
    /\ call.remaining = 3 /\ call.read_block = 2
    /\ task[1].nreads = 3
    /\ Len(call.source) > call.remaining

\* the order C21 gives: raw deflate, gzip-wrapped, zlib-wrapped
StatedOrder == <<RawWbits, GzipWbits, ZlibWbits>>
\* a fresh decoder of variant w takes buf without a decode error
Accepts(w, buf) == ~Decompress(NewDecoder(w), buf).err
\* the bytes task i got from the read made in the step
ChunkRead(i) == SubSeq(selected[i].data, task[i].rpos + 1, task'[i].rpos)
\* task i reads its first chunk in the step and detection finds nothing cached
ProbingStep(i) ==
    /\ i \in DOMAIN task' /\ task[i].pc = "comp_first"
    /\ ChunkRead(i) # <<>>
    /\ TaskCacheKey = "" \/ cache[TaskCacheKey] = 0

\* C21: on a cache miss the detector returns the earliest variant, in the
\* order raw, gzip, zlib, whose fresh decoder takes the prefix without a
\* decode error: the decoder of the entry is of that variant, every variant
\* before it in the order refuses the prefix, and it is what gets cached
C21_FirstAcceptingVariant ==
    [][\A i \in Tasks : ProbingStep(i) =>
          /\ probes' = probes + 1
          /\ \/ /\ \A k \in DOMAIN StatedOrder : ~Accepts(StatedOrder[k], ChunkRead(i))
                /\ task'[i].err = ErrWindow
             \/ \E k \in DOMAIN StatedOrder :
                  /\ task'[i].dec.wbits = StatedOrder[k]
                  /\ Accepts(StatedOrder[k], ChunkRead(i))
                  /\ \A j \in 1..(k - 1) : ~Accepts(StatedOrder[j], ChunkRead(i))
                  /\ TaskCacheKey # "" => cache'[TaskCacheKey] = StatedOrder[k]]_vars
\* a one-byte prefix of a zlib-wrapped stream, which the raw and the zlib
\* decoder both take, was probed and the raw variant came out
C21_Witness ==
    /\ call.kind = "copy_compressed" /\ probes = 1
    /\ task[1].nreads = 1 /\ task[1].rpos = 1
    /\ Accepts(RawWbits, Take(call.source, 1)) /\ Accepts(ZlibWbits, Take(call.source, 1))
    /\ task[1].dec.wbits = RawWbits
    /\ call.cache_key = "key" /\ cache["key"] = RawWbits

\* the tasks whose probe found no variant
FailedProbes == { i \in Tasks : task[i].err = ErrWindow }
\* task i reads its first chunk in the step and detection finds a variant cached
CachedStep(i) ==
    /\ i \in DOMAIN task' /\ task[i].pc = "comp_first"
    /\ ChunkRead(i) # <<>>
    /\ TaskCacheKey # "" /\ cache[TaskCacheKey] # 0

\* C22: a variant the cache holds for a key is never removed or changed; a
\* detection that finds one cached returns it without probing; and the tasks
\* of one extraction call make at most one successful probe between them,
\* however they interleave
C22_CacheStable ==
    /\ [][/\ \A k \in CacheKeys : cache[k] # 0 => cache'[k] = cache[k]
          /\ \A i \in Tasks : CachedStep(i) =>
                /\ probes' = probes
                /\ task'[i].dec.wbits = cache[TaskCacheKey]]_vars
    /\ [](mode \in {"seq", "gather"} => probes - Cardinality(FailedProbes) <= 1)
\* two entries of one archive have been decoded under gather after one probe
C22_Witness ==
    /\ mode = "gather" /\ probes = 1
    /\ \E i, j \in Tasks :
         /\ i # j
         /\ task[i].dec.wbits # 0 /\ task[j].dec.wbits # 0
         /\ task[i].err = NoErr /\ task[j].err = NoErr
    /\ cache[CacheKey] # 0

\* task i reads its first chunk in the step and detection returns a variant,
\* probed or cached
DetectedStep(i) ==
    /\ i \in DOMAIN task' /\ task[i].pc = "comp_first"
    /\ ChunkRead(i) # <<>>
    /\ task'[i].err # ErrWindow

\* C23: whenever window detection returns a variant for an entry, freshly
\* probed or taken from the cache an earlier entry or an earlier call with the
\* same key filled, a fresh decoder of that variant decodes the entry's first
\* chunk without a decode error
C23_DetectedVariantDecodes ==
    [][\A i \in Tasks : DetectedStep(i) =>
          /\ Accepts(task'[i].dec.wbits, ChunkRead(i))
          /\ task'[i].err # ErrDecode]_vars

\* C24: every directory-creation call of an extraction call is made only
\* after the path was looked up in created_dirs and found missing, and every
\* entry, directory entries included, records the directory it ensured: no
\* destination directory is the target of more than one creation call, and
\* every directory a creation call was made for is in created_dirs
C24_EveryMkdirDeduplicated ==
    call.kind = "unzip" =>
        \A p \in AllDirs :
            /\ parent_mkdirs[p] + dir_mkdirs[p] <= 1
            /\ parent_mkdirs[p] + dir_mkdirs[p] >= 1 => p \in created_dirs

\* task i extracts a compressed entry of non-zero size
CompressedTask(i) ==
    /\ mode \in {"direct", "seq", "gather"}
    /\ selected[i].compress_type = "deflated" /\ selected[i].compress_size > 0
    /\ task[i].pc \notin {"queued", "open_src", "header", "open_out"}
    /\ task[i].err \notin {ErrHeader, ErrNoFile}
\* what one fresh decoder of variant w makes of the bytes task i has read so
\* far, fed in read order, each once
FedInOrder(i, w) == Decompress(NewDecoder(w), Take(selected[i].data, task[i].rpos))

\* C25: for a compressed entry of non-zero size no decoder exists before the
\* first chunk was read and the variant determined; the decoder is in the
\* state one fresh decoder has after every byte read so far was fed to it
\* once in read order, and its output is in the file before the next read;
\* the flush output is written once, after the last chunk; the decoder has
\* seen the bytes of its own entry only
C25_OneDecoderPerEntry ==
    \A i \in Tasks : CompressedTask(i) =>
        LET t == task[i]
        IN /\ t.nreads = 0 => t.dec = NoDecoder /\ t.pc = "comp_first"
           /\ t.pc = "comp_first" => t.dec = NoDecoder /\ t.nwrites = 0
           /\ t.dec # NoDecoder =>
                /\ t.dec.wbits \in {RawWbits, GzipWbits, ZlibWbits}
                /\ t.dec = FedInOrder(i, t.dec.wbits).dec
                /\ t.err = NoErr =>
                     /\ fs[OutPath(i)] = FedInOrder(i, t.dec.wbits).out
                     /\ t.wpos = Len(FedInOrder(i, t.dec.wbits).out)
           /\ t.pc \in {"comp_next", "flush"} => t.nwrites = t.nreads
           /\ t.pc \in {"close", "done"} => t.nwrites = t.nreads + 1
           /\ t.nwrites <= t.nreads + 1
\* an entry read in three chunks has been decoded, flushed and closed
C25_Witness ==
    /\ call.kind = "copy_compressed" /\ CompressedTask(1) /\ pc = "done" /\ result = OK
    /\ task[1].nreads = 3 /\ task[1].nwrites = 4
    /\ task[1].dec.st = "end"
    /\ fs[DestPath(SinkName)] = <<"x", "y">>

\* task i issues a payload read in the step
PayloadRead(i) ==
    /\ i \in DOMAIN task' /\ task[i].pc \in {"stored", "comp_first", "comp_next"}
    /\ task'[i].nreads = task[i].nreads + 1

\* C26: every payload read of copy_stored and copy_compressed asks for
\* min(chunk size, bytes outstanding) bytes, which is at least 1 and neither
\* more than the chunk size nor more than what is outstanding; with a source
\* that gives at most what was asked, the outstanding count never goes below
\* zero and no byte beyond the declared size of the entry is consumed
C26_ReadRequests ==
    /\ [][\A i \in Tasks : PayloadRead(i) =>
             /\ task'[i].asked = Min(task[i].read_block, task[i].remaining)
             /\ task'[i].asked >= 1
             /\ task'[i].asked <= task[i].read_block
             /\ task'[i].asked <= task[i].remaining
             /\ Len(ChunkRead(i)) <= task'[i].asked]_vars
    /\ [](mode \in {"direct", "seq", "gather"} =>
            \A i \in Tasks : /\ task[i].remaining >= 0
                             /\ task[i].rpos <= selected[i].compress_size)
\* a copy whose last read asked for less than the chunk size, the one byte
\* still outstanding, from a source that had more
C26_Witness ==
    /\ mode = "direct" /\ pc = "done" /\ result = OK
    /\ call.remaining = 3 /\ call.read_block = 2
    /\ task[1].asked = 1 /\ task[1].remaining = 0
    /\ task[1].rpos = 3 /\ Len(call.source) > 3

\* the stages of the copy, and the order of the stages C27 gives for an
\* entry that is no directory, each stage ending in the next or in a failure
CopyStages == {"stored", "comp_empty", "comp_first", "comp_next", "flush", "close"}
StatedSteps ==
    {<<"queued", "open_src">>}                             \* parent ensured
    \cup ({"open_src"} \X {"header", "failed"})            \* source opened
    \cup ({"header"} \X {"open_out", "failed"})            \* seek, header validated
    \cup ({"open_out"} \X CopyStages)                      \* destination opened
    \cup (CopyStages \X (CopyStages \cup {"done", "failed"}))
\* the file at path p, absent or with its content
FileAt(f, p) == IF p \in DOMAIN f THEN <<"file", f[p]>> ELSE <<"absent">>
\* task i has the destination open or is about to open it, the header passed
PastHeader(i) == task[i].pc \in {"open_out"} \cup CopyStages

\* C27: the stages of one non-directory entry come in the order parent
\* directory, source, seek and header validation, destination, copy; a file
\* of the destination is created, truncated or written only by an entry whose
\* header has passed validation, so the file of an entry whose header fails
\* is not created and, if it was there before, keeps its content
C27_HeaderBeforeDestination ==
    /\ [][\A i \in Tasks : (i \in DOMAIN task' /\ ~is_dir(selected[i].filename)) =>
             /\ task'[i].pc # task[i].pc => <<task[i].pc, task'[i].pc>> \in StatedSteps
             /\ task'[i].pc = "open_src" => Parent(OutPath(i)) \in dirs'
             /\ FileAt(fs', OutPath(i)) # FileAt(fs, OutPath(i))
                => \E j \in Tasks : OutPath(j) = OutPath(i) /\ PastHeader(j)
                                    /\ selected[j].header = "ok"]_vars
    /\ [](\A i \in Tasks :
            (/\ mode \in {"seq", "gather"}
             /\ task[i].err = ErrHeader
             /\ \A j \in Tasks : j # i => OutPath(j) # OutPath(i))
            => \/ OutPath(i) \notin DOMAIN fs
               \/ fs[OutPath(i)] = OldContent)
\* under gather the header of one entry has failed with its old file still
\* in place, while a sibling has replaced the old file at its own path
C27_Witness ==
    /\ mode = "gather"
    /\ \E i, j \in Tasks :
         /\ task[i].pc = "failed" /\ task[i].err = ErrHeader
         /\ OutPath(i) \in DOMAIN fs /\ fs[OutPath(i)] = OldContent
         /\ Parent(OutPath(i)) \in created_dirs
         /\ task[j].pc = "done" /\ ~is_dir(selected[j].filename)
         /\ fs[OutPath(j)] = selected[j].payload

\* every task of the call has come to its end, normally or with an error
AllSettled == \A i \in Tasks : task[i].pc \in {"done", "failed"}
\* the entries are being extracted under the gate
UnderGate == call.kind = "unzip" /\ mode = "gather"

\* C28: under concurrent extraction with a fair scheduler every selected
\* entry's task gets through the gate and comes to its end, completed or
\* failed; a task that fails gives its slot back in the step in which it
\* fails, the slots held and the free ones always add up to the limit, and
\* while a task is queued and nothing is in flight a slot is free
C28_NoTaskBlockedForever ==
    /\ UnderGate ~> AllSettled
    /\ [][\A i \in Tasks :
             (UnderGate /\ i \in DOMAIN task' /\ task[i].pc # "failed" /\ task'[i].pc = "failed")
             => sem' = sem + 1]_vars
    /\ [](UnderGate =>
            /\ sem + Cardinality(InFlight) = worker_count
            /\ (\E i \in Tasks : task[i].pc = "queued") /\ InFlight = {} => sem > 0)
\* with two slots, two entries have failed and a third, which had to wait
\* for a slot, has been extracted
C28_Witness ==
    /\ UnderGate /\ worker_count = 2 /\ AllSettled /\ Len(task) = 3
    /\ Cardinality({ i \in Tasks : task[i].pc = "failed" }) = 2
    /\ task[1].pc = "failed" /\ task[2].pc = "failed"
    /\ task[3].pc = "done" /\ ~is_dir(selected[3].filename)

\* the tasks gather has created that still wait for a semaphore slot
QueuedTasks == IF mode = "gather" THEN { i \in Tasks : task[i].pc = "queued" } ELSE {}

\* C29: at the moment an unzip call returns to or raises into its caller,
\* on success and on failure, sequentially and under gather, no extraction
\* task the call started is running or queued and no source or destination
\* handle the call opened is open
C29_NothingLeftAtReturn ==
    [][(call.kind = "unzip" /\ pc # "done" /\ pc' = "done")
       => /\ InFlight' = {} /\ QueuedTasks' = {}
          /\ SrcOpen' = {} /\ OutOpen' = {}]_vars

\* the path the filesystem resolves p to: a ".." component steps back out of
\* the component before it
RECURSIVE ResolveAcc(_, _)
ResolveAcc(p, acc) ==
    IF p = <<>> THEN acc
    ELSE IF Head(p) = <<".", ".">>
    THEN ResolveAcc(Tail(p), IF acc = <<>> \/ acc = FsRoot THEN acc
                             ELSE SubSeq(acc, 1, Len(acc) - 1))
    ELSE ResolveAcc(Tail(p), Append(acc, Head(p)))
Resolve(p) == ResolveAcc(p, <<>>)
\* p is the destination root or lies below it
InsideRoot(p) ==
    /\ Len(Resolve(p)) >= Len(DestRoot)
    /\ SubSeq(Resolve(p), 1, Len(DestRoot)) = DestRoot
\* p is a directory above the destination root, there before the call
AboveRoot(p) ==
    /\ Len(Resolve(p)) < Len(DestRoot)
    /\ Resolve(p) = SubSeq(DestRoot, 1, Len(Resolve(p)))

\* C30: every file an extraction call creates or writes and every directory
\* it creates lies inside the destination root, whatever names the archive
\* directory supplies, names with ".." components and names that start with
\* "/" included
C30_StaysInsideRoot ==
    call.kind = "unzip" =>
        /\ \A p \in DOMAIN fs : InsideRoot(p)
        /\ \A p \in AllDirs :
             (parent_mkdirs[p] > 0 \/ dir_mkdirs[p] > 0) => InsideRoot(p) \/ AboveRoot(p)
====
